---- MODULE Spec2Model ----
(***************************************************************************)
(* Bit-range engine of bit_manip.h (namespace bit).                        *)
(*                                                                         *)
(* An unsigned integral value of sizeof T bytes is modelled as the set of  *)
(* the positions of its 1 bits, a subset of 0 .. T*CHAR_BIT-1 (bit 0 is    *)
(* the least-significant bit).  This keeps 32- and 64-bit values exact.    *)
(* The C++ operators are modelled on that representation, in the width the *)
(* expression is evaluated in: operands narrower than int are promoted to  *)
(* int before <<, -, &, | and ~ are applied.                               *)
(***************************************************************************)
EXTENDS Integers, FiniteSets, Sequences, TLC

\* ------------------------------------------------------------------ bounds
\* How far past the width the begin and count arguments are enumerated.
MaxOver == 2
\* Number of consecutive calls made on one value and one range.
MaxSteps == 2
\* Longest index list handed to the list overloads.
MaxListLen == 3
\* Largest content of one byte of a value or a buffer (bytes are 0 .. MaxByte).
MaxByte == 1
\* How many bytes longer than the value a buffer can be.
MaxExtra == 1
\* Single-bit calls made on one value.
MaxBitCalls == 3

\* --------------------------------------------------------- program constants
CHAR_BIT == 8
\* sizeof(int): operands of a narrower type are promoted to int.
SizeofInt == 4
\* sizeof of std::uint8_t, std::uint16_t, std::uint32_t, std::uint64_t.
Sizes == {1, 2, 4, 8}

\* ------------------------------------------------------- machine arithmetic
\* The positions 0 .. n-1.
Low(n) == 0 .. (n - 1)

\* Number of bits of the type an expression on a T-byte operand is evaluated in.
ArithBits(T) == (IF T < SizeofInt THEN SizeofInt ELSE T) * CHAR_BIT

\* static_cast to an unsigned type of n bits: keeps the low n bits.
Cast(x, n) == x \cap Low(n)

\* x << n, evaluated in a type of aw bits (n < aw).
Shl(x, n, aw) == {i + n : i \in x} \cap Low(aw)

\* x >> n of a non-negative x.
Shr(x, n) == {i - n : i \in {j \in x : j >= n}}

\* x - 1 in two's complement of aw bits: borrow through the low zero bits.
Dec(x, aw) ==
    IF x = {} THEN Low(aw)
    ELSE LET m == CHOOSE i \in x : \A j \in x : i <= j
         IN  (x \ {m}) \cup Low(m)

\* ~x in a type of aw bits.
Not(x, aw) == Low(aw) \ x

\* ((static_cast<T>(1) << count) - 1) << begin
RangeMask(T, begin, count) ==
    Shl(Dec(Shl({0}, count, ArithBits(T)), ArithBits(T)), begin, ArithBits(T))

\* ------------------------------------------------------------ the functions
\* GetBits with the bound of the count test off by one (count <= total_bits).
GetBits_CountOffByOne(T, val, begin, count) ==
    LET total_bits == T * CHAR_BIT
    IN  IF begin >= total_bits THEN {}
        ELSE IF count <= total_bits
             THEN LET mask == RangeMask(T, begin, count)
                  IN  Cast(Shr(val \cap mask, begin), total_bits)
             ELSE val

\* GetBits testing count before begin.
GetBits_CountFirst(T, val, begin, count) ==
    LET total_bits == T * CHAR_BIT
    IN  IF count >= total_bits THEN val
        ELSE IF begin >= total_bits THEN {}
        ELSE LET mask == RangeMask(T, begin, count)
             IN  Cast(Shr(val \cap mask, begin), total_bits)

\* GetBits that masks the range but does not shift it down.
GetBits_NoShift(T, val, begin, count) ==
    LET total_bits == T * CHAR_BIT
    IN  IF begin >= total_bits THEN {}
        ELSE IF count < total_bits
             THEN LET mask == RangeMask(T, begin, count)
                  IN  Cast(val \cap mask, total_bits)
             ELSE val

GetBits(T, val, begin, count) ==
    LET total_bits == T * CHAR_BIT
    IN  IF begin >= total_bits THEN {}
        ELSE IF count < total_bits
             THEN LET mask == RangeMask(T, begin, count)
                  IN  Cast(Shr(val \cap mask, begin), total_bits)
             ELSE val

\* ClearBits without the test of begin against the width.
ClearBits_NoBeginGuard(T, val, begin, count) ==
    LET total_bits == T * CHAR_BIT
    IN  IF count < total_bits
        THEN LET mask == RangeMask(T, begin, count)
             IN  Cast(val \cap Not(mask, ArithBits(T)), total_bits)
        ELSE {}

\* ClearBits that forgets to shift the mask up to begin.
ClearBits_MaskAtZero(T, val, begin, count) ==
    LET total_bits == T * CHAR_BIT
    IN  IF begin >= total_bits THEN val
        ELSE IF count < total_bits
             THEN LET mask == RangeMask(T, 0, count)
                  IN  Cast(val \cap Not(mask, ArithBits(T)), total_bits)
             ELSE {}

\* ClearBits that toggles the range (val ^= mask) instead of clearing it.
ClearBits_Toggle(T, val, begin, count) ==
    LET total_bits == T * CHAR_BIT
    IN  IF begin >= total_bits THEN val
        ELSE IF count < total_bits
             THEN LET mask == RangeMask(T, begin, count)
                  IN  Cast((val \ mask) \cup (mask \ val), total_bits)
             ELSE {}

ClearBits(T, val, begin, count) ==
    LET total_bits == T * CHAR_BIT
    IN  IF begin >= total_bits THEN val
        ELSE IF count < total_bits
             THEN LET mask == RangeMask(T, begin, count)
                  IN  Cast(val \cap Not(mask, ArithBits(T)), total_bits)
             ELSE {}

\* SetBits that ORs the new bits in without clearing the range first.
SetBits_NoClear(T, val, bits, begin, count) ==
    LET total_bits == T * CHAR_BIT
        aw == ArithBits(T)
    IN  IF begin >= total_bits THEN val
        ELSE IF count < total_bits /\ begin + count <= total_bits
             THEN LET mask == RangeMask(T, begin, count)
                  IN  Cast(val \cup (Shl(Cast(bits, total_bits), begin, aw) \cap mask),
                           total_bits)
             ELSE LET mask == Shl(Not({}, aw), begin, aw)
                  IN  Cast(val \cup (Shl(Cast(bits, total_bits), begin, aw) \cap mask),
                           total_bits)

\* SetBits that hands count, not total_bits - begin, to ClearBits when the
\* range does not fit.
SetBits_ClearCount(T, val, bits, begin, count) ==
    LET total_bits == T * CHAR_BIT
        aw == ArithBits(T)
    IN  IF begin >= total_bits THEN val
        ELSE IF count < total_bits /\ begin + count <= total_bits
             THEN LET cleared == ClearBits(T, val, begin, count)
                      mask == RangeMask(T, begin, count)
                  IN  Cast(cleared \cup (Shl(Cast(bits, total_bits), begin, aw) \cap mask),
                           total_bits)
             ELSE LET cleared == ClearBits(T, val, begin, count)
                      mask == Shl(Not({}, aw), begin, aw)
                  IN  Cast(cleared \cup (Shl(Cast(bits, total_bits), begin, aw) \cap mask),
                           total_bits)

\* SetBits that clears from begin to the top bit even when the range fits.
SetBits_ClearToTop(T, val, bits, begin, count) ==
    LET total_bits == T * CHAR_BIT
        aw == ArithBits(T)
    IN  IF begin >= total_bits THEN val
        ELSE IF count < total_bits /\ begin + count <= total_bits
             THEN LET cleared == ClearBits(T, val, begin, total_bits - begin)
                      mask == RangeMask(T, begin, count)
                  IN  Cast(cleared \cup (Shl(Cast(bits, total_bits), begin, aw) \cap mask),
                           total_bits)
             ELSE LET cleared == ClearBits(T, val, begin, total_bits - begin)
                      mask == Shl(Not({}, aw), begin, aw)
                  IN  Cast(cleared \cup (Shl(Cast(bits, total_bits), begin, aw) \cap mask),
                           total_bits)

SetBits(T, val, bits, begin, count) ==
    LET total_bits == T * CHAR_BIT
        aw == ArithBits(T)
    IN  IF begin >= total_bits THEN val
        ELSE IF count < total_bits /\ begin + count <= total_bits
             THEN LET cleared == ClearBits(T, val, begin, count)
                      mask == RangeMask(T, begin, count)
                  IN  Cast(cleared \cup (Shl(Cast(bits, total_bits), begin, aw) \cap mask),
                           total_bits)
             ELSE LET cleared == ClearBits(T, val, begin, total_bits - begin)
                      mask == Shl(Not({}, aw), begin, aw)
                  IN  Cast(cleared \cup (Shl(Cast(bits, total_bits), begin, aw) \cap mask),
                           total_bits)

\* FillBits passing static_cast<T>(1) instead of static_cast<T>(-1).
FillBits_One(T, val, begin, count) ==
    SetBits(T, val, {0}, begin, count)

FillBits(T, val, begin, count) ==
    SetBits(T, val, Low(T * CHAR_BIT), begin, count)

\* IsBitSet without the idx guard, on hardware that takes the shift amount
\* modulo the width of the shifted operand.
IsBitSet_NoGuard(T, val, idx) ==
    (val \cap Shl({0}, idx % ArithBits(T), ArithBits(T))) # {}

IsBitSet(T, val, idx) ==
    IF idx < T * CHAR_BIT
    THEN (val \cap Shl({0}, idx, ArithBits(T))) # {}
    ELSE FALSE

\* SetBit that assigns the bit (val = 1 << idx) instead of OR-ing it in.
SetBit_Assign(T, val, idx) ==
    IF idx < T * CHAR_BIT
    THEN Cast(Shl({0}, idx, ArithBits(T)), T * CHAR_BIT)
    ELSE val

SetBit(T, val, idx) ==
    IF idx < T * CHAR_BIT
    THEN Cast(val \cup Shl({0}, idx, ArithBits(T)), T * CHAR_BIT)
    ELSE val

\* ClearBit that toggles the bit (val ^= 1 << idx) instead of masking it out.
ClearBit_Xor(T, val, idx) ==
    IF idx < T * CHAR_BIT
    THEN LET m == Shl({0}, idx, ArithBits(T))
         IN  Cast((val \ m) \cup (m \ val), T * CHAR_BIT)
    ELSE val

ClearBit(T, val, idx) ==
    IF idx < T * CHAR_BIT
    THEN Cast(val \cap Not(Shl({0}, idx, ArithBits(T)), ArithBits(T)), T * CHAR_BIT)
    ELSE val

\* ------------------------------------------------------- the shift amounts
\* The right operands of the << and >> each function evaluates on the path its
\* arguments select.
GetBitsShifts(T, begin, count) ==
    LET total_bits == T * CHAR_BIT
    IN  IF begin >= total_bits THEN {}
        ELSE IF count < total_bits THEN {count, begin}
        ELSE {}

ClearBitsShifts(T, begin, count) ==
    LET total_bits == T * CHAR_BIT
    IN  IF begin >= total_bits THEN {}
        ELSE IF count < total_bits THEN {count, begin}
        ELSE {}

\* SetBits without its clamping branch: count is always the shift amount.
SetBitsShifts_NoClamp(T, begin, count) ==
    LET total_bits == T * CHAR_BIT
    IN  IF begin >= total_bits THEN {}
        ELSE ClearBitsShifts(T, begin, count) \cup {count, begin}

SetBitsShifts(T, begin, count) ==
    LET total_bits == T * CHAR_BIT
    IN  IF begin >= total_bits THEN {}
        ELSE IF count < total_bits /\ begin + count <= total_bits
             THEN ClearBitsShifts(T, begin, count) \cup {count, begin}
             ELSE ClearBitsShifts(T, begin, total_bits - begin) \cup {begin}

FillBitsShifts(T, begin, count) ==
    SetBitsShifts(T, begin, count)

\* IsBitSet, SetBit and ClearBit: 1 << idx behind the test of idx.
BitShifts(T, idx) ==
    IF idx < T * CHAR_BIT THEN {idx} ELSE {}

\* ClearBits(val, idxs): std::ranges::for_each over the list, in its order.
RECURSIVE ClearBitsIdxs(_, _, _)
ClearBitsIdxs(T, val, idxs) ==
    IF idxs = <<>> THEN val
    ELSE ClearBitsIdxs(T, ClearBit(T, val, Head(idxs)), Tail(idxs))

\* FillBits(val, idxs): std::ranges::for_each over the list, in its order.
RECURSIVE FillBitsIdxs(_, _, _)
FillBitsIdxs(T, val, idxs) ==
    IF idxs = <<>> THEN val
    ELSE FillBitsIdxs(T, SetBit(T, val, Head(idxs)), Tail(idxs))

\* std::ranges::any_of with IsBitSet: stops at the first index whose bit is set.
RECURSIVE IsAnyBitSet(_, _, _)
IsAnyBitSet(T, val, idxs) ==
    IF idxs = <<>> THEN FALSE
    ELSE IF IsBitSet(T, val, Head(idxs)) THEN TRUE
    ELSE IsAnyBitSet(T, val, Tail(idxs))

\* std::ranges::all_of with IsBitSet: stops at the first index whose bit is not set.
RECURSIVE AreAllBitsSet(_, _, _)
AreAllBitsSet(T, val, idxs) ==
    IF idxs = <<>> THEN TRUE
    ELSE IF ~IsBitSet(T, val, Head(idxs)) THEN FALSE
    ELSE AreAllBitsSet(T, val, Tail(idxs))

\* IsNoneBitSet written as "not all of them are set".
IsNoneBitSet_NotAll(T, val, idxs) ==
    ~AreAllBitsSet(T, val, idxs)

\* std::ranges::none_of with IsBitSet: stops at the first index whose bit is set.
RECURSIVE IsNoneBitSet(_, _, _)
IsNoneBitSet(T, val, idxs) ==
    IF idxs = <<>> THEN TRUE
    ELSE IF IsBitSet(T, val, Head(idxs)) THEN FALSE
    ELSE IsNoneBitSet(T, val, Tail(idxs))

\* x + y in a type of aw bits: ripple carry from bit 0, the carry out of the
\* top bit dropped.
Add(x, y, aw) ==
    LET RECURSIVE From(_, _)
        From(i, carry) ==
            IF i >= aw THEN {}
            ELSE LET a == i \in x
                     b == i \in y
                     sum == (a # b) # carry
                     out == (a /\ b) \/ (carry /\ (a \/ b))
                 IN  (IF sum THEN {i} ELSE {}) \cup From(i + 1, out)
    IN  From(0, FALSE)

\* CombineBits with its arguments taken in the other order.
CombineBits_Swapped(R, B, high, low) ==
    Cast(Add(Shl(Cast(low, R * CHAR_BIT), B * CHAR_BIT, ArithBits(R)), high, ArithBits(R)),
         R * CHAR_BIT)

\* CombineBits<Ret, Bits>(high, low), R = sizeof(Ret), B = sizeof(Bits), both unsigned.
CombineBits(R, B, high, low) ==
    Cast(Add(Shl(Cast(high, R * CHAR_BIT), B * CHAR_BIT, ArithBits(R)), low, ArithBits(R)),
         R * CHAR_BIT)

\* Conversion of a signed value of `from` bits to a signed type of `to` bits.
SignExtend(x, from, to) ==
    IF (from - 1) \in x THEN x \cup (from .. (to - 1)) ELSE x

\* The signed sum x + y in aw bits is not representable.
SignedOverflow(x, y, aw) ==
    /\ ((aw - 1) \in x) = ((aw - 1) \in y)
    /\ ((aw - 1) \in Add(x, y, aw)) # ((aw - 1) \in x)

\* CombineBits<Ret, Bits>(high, low) with Ret and Bits signed: the set of results
\* a build can produce.  high is converted to Ret, both operands of + are
\* sign-extended to the type of the arithmetic, and the sum is converted back
\* to Ret.  A signed overflow of the sum is undefined: the wrapped sum and the
\* two extreme bit patterns stand for whatever the build produces then.
CombineBitsSigned(R, B, high, low) ==
    LET aw == ArithBits(R)
        shifted == Shl(SignExtend(high, B * CHAR_BIT, aw), B * CHAR_BIT, aw)
        addend == SignExtend(low, B * CHAR_BIT, aw)
        wrapped == Cast(Add(shifted, addend, aw), R * CHAR_BIT)
    IN  IF SignedOverflow(shifted, addend, aw)
        THEN {wrapped, {}, Low(R * CHAR_BIT)}
        ELSE {wrapped}

CombineBytes(high, low) == CombineBits(2, 1, high, low)

CombineWords(high, low) == CombineBits(4, 2, high, low)

CombineDwords(high, low) == CombineBits(8, 4, high, low)

\* ------------------------------------------------- byte / word / dword access
\* sizeof of the three units.
SizeofByte == 1
SizeofWord == 2
SizeofDword == 4

\* GetByte(val, begin), T = sizeof(val) > sizeof(std::uint8_t), val unsigned.
GetByte(T, val, begin) ==
    Cast(GetBits(T, val, begin, SizeofByte * CHAR_BIT), SizeofByte * CHAR_BIT)

\* GetWord whose result is cast to std::uint8_t.
GetWord_Narrow(T, val, begin) ==
    Cast(GetBits(T, val, begin, SizeofWord * CHAR_BIT), SizeofByte * CHAR_BIT)

GetWord(T, val, begin) ==
    Cast(GetBits(T, val, begin, SizeofWord * CHAR_BIT), SizeofWord * CHAR_BIT)

GetDword(T, val, begin) ==
    Cast(GetBits(T, val, begin, SizeofDword * CHAR_BIT), SizeofDword * CHAR_BIT)

GetLowByte(val) == GetByte(2, val, 0)

GetLowWord(val) == GetWord(4, val, 0)

GetLowDword(val) == GetDword(8, val, 0)

GetHighByte(val) == GetByte(2, val, SizeofByte * CHAR_BIT)

\* GetHighWord that starts at the byte boundary instead of the word boundary.
GetHighWord_AtByte(val) == GetWord(4, val, SizeofByte * CHAR_BIT)

GetHighWord(val) == GetWord(4, val, SizeofWord * CHAR_BIT)

GetHighDword(val) == GetDword(8, val, SizeofDword * CHAR_BIT)

\* ---------------------------------------------------------------- ByteCodec
\* An arithmetic value of sizeof s is modelled as the sequence of its s bytes
\* in order of significance: v[1] is the least-significant byte.  A buffer is
\* the sequence of its bytes in memory order.

\* std::min
Min(a, b) == IF a < b THEN a ELSE b

\* std::ranges::reverse
Reverse(q) == [i \in 1 .. Len(q) |-> q[Len(q) + 1 - i]]

\* std::span::first(n)
First(q, n) == SubSeq(q, 1, n)

\* std::span::last(n)
Last(q, n) == SubSeq(q, Len(q) - n + 1, Len(q))

\* std::ranges::copy(src, dst.begin() + (at - 1)): overwrites Len(src) bytes of
\* dst from position at on.
Copy(src, dst, at) ==
    [i \in 1 .. Len(dst) |->
        IF at <= i /\ i < at + Len(src) THEN src[i - at + 1] ELSE dst[i]]

\* std::bit_cast between a value and its object representation: the bytes in
\* memory order are the bytes by significance on a little-endian platform and
\* the reverse on a big-endian one.  It is its own inverse.
BitCast(v, native) == IF native = "little" THEN v ELSE Reverse(v)

\* std::array<std::byte, n> tmp_buf {}
Zeroes(n) == [i \in 1 .. n |-> 0]

\* WriteBytes that never reverses the bytes.
WriteBytes_NoReverse(from, to, endian, native) ==
    IF Len(from) > 1
    THEN LET tmp_buf == BitCast(from, native)
             size == Min(Len(from), Len(to))
         IN  [to |-> Copy(First(tmp_buf, size), to, 1), ok |-> Len(to) >= Len(from)]
    ELSE IF to # <<>>
         THEN [to |-> [to EXCEPT ![1] = from[1]], ok |-> TRUE]
         ELSE [to |-> to, ok |-> FALSE]

\* WriteBytes that copies the whole of tmp_buf, whatever the size of the buffer.
WriteBytes_CopyAll(from, to, endian, native) ==
    IF Len(from) > 1
    THEN LET tmp_buf == BitCast(from, native)
             out == IF endian # native THEN Reverse(tmp_buf) ELSE tmp_buf
         IN  [to |-> out \o SubSeq(to, Len(from) + 1, Len(to)), ok |-> Len(to) >= Len(from)]
    ELSE IF to # <<>>
         THEN [to |-> [to EXCEPT ![1] = from[1]], ok |-> TRUE]
         ELSE [to |-> to, ok |-> FALSE]

\* WriteBytes(from, to, endian) on a platform whose std::endian::native is
\* native: the buffer after the call and the result.
WriteBytes(from, to, endian, native) ==
    IF Len(from) > 1
    THEN LET tmp_buf == BitCast(from, native)
             size == Min(Len(from), Len(to))
         IN  IF endian # native
             THEN [to |-> Copy(Last(Reverse(tmp_buf), size), to, 1),
                   ok |-> Len(to) >= Len(from)]
             ELSE [to |-> Copy(First(tmp_buf, size), to, 1),
                   ok |-> Len(to) >= Len(from)]
    ELSE IF to # <<>>
         THEN [to |-> [to EXCEPT ![1] = from[1]], ok |-> TRUE]
         ELSE [to |-> to, ok |-> FALSE]

\* ReadBytes that never reverses the bytes.
ReadBytes_NoReverse(from, to, endian, native) ==
    IF Len(to) > 1
    THEN LET size == Min(Len(to), Len(from))
         IN  [to |-> BitCast(Copy(First(from, size), Zeroes(Len(to)), 1), native),
              ok |-> Len(from) >= Len(to)]
    ELSE IF from # <<>>
         THEN [to |-> <<from[1]>>, ok |-> TRUE]
         ELSE [to |-> to, ok |-> FALSE]

\* ReadBytes that wants the buffer larger than the value.
ReadBytes_StrictSize(from, to, endian, native) ==
    IF Len(to) > 1
    THEN LET size == Min(Len(to), Len(from))
             tmp_buf ==
                 IF endian # native
                 THEN Reverse(Copy(First(from, size), Zeroes(Len(to)), Len(to) - size + 1))
                 ELSE Copy(First(from, size), Zeroes(Len(to)), 1)
         IN  [to |-> BitCast(tmp_buf, native), ok |-> Len(from) > Len(to)]
    ELSE IF from # <<>>
         THEN [to |-> <<from[1]>>, ok |-> TRUE]
         ELSE [to |-> to, ok |-> FALSE]

\* ReadBytes(from, to, endian) on a platform whose std::endian::native is
\* native: the target after the call and the result.
ReadBytes(from, to, endian, native) ==
    IF Len(to) > 1
    THEN LET size == Min(Len(to), Len(from))
             tmp_buf ==
                 IF endian # native
                 THEN Reverse(Copy(First(from, size), Zeroes(Len(to)), Len(to) - size + 1))
                 ELSE Copy(First(from, size), Zeroes(Len(to)), 1)
         IN  [to |-> BitCast(tmp_buf, native), ok |-> Len(from) >= Len(to)]
    ELSE IF from # <<>>
         THEN [to |-> <<from[1]>>, ok |-> TRUE]
         ELSE [to |-> to, ok |-> FALSE]

\* ------------------------------------------------------------------- inputs
\* 0x1234567812345678, the value the unit tests work on.
Pattern ==
    LET p == {3, 4, 5, 6, 9, 10, 12, 14, 18, 20, 21, 25, 28}
    IN  p \cup {i + 32 : i \in p}

\* Values of a T-byte type the calls start from.
Values(T) ==
    LET n == T * CHAR_BIT
    IN  {{}, Low(n), Cast(Pattern, n), {n - 1}, {i \in Low(n) : i % 2 = 0}}

\* begin and count arguments: around 0, inside, at and beyond the width
\* (every offset for a one-byte value).
Offsets(T) ==
    LET n == T * CHAR_BIT
    IN  (IF T = 1 THEN Low(n) ELSE {0, 1, CHAR_BIT, n \div 2, n - 1})
            \cup (n .. (n + MaxOver)) \cup {2 * n}

\* The bits arguments of SetBits (of any integral type, up to 64 bits).
BitsArgs == {{}, {0, 2, 3}, Low(64), {1, 6, 7, 15, 31, 63}}

\* -------------------------------------------------------------------- state
VARIABLES
    size,        \* sizeof of the value's type
    orig,        \* the content the caller's variable started with
    rangeBegin,  \* the begin argument of the calls
    rangeCount,  \* the count argument of the calls
    value,       \* the caller's variable
    before,      \* its content before the last call
    op,          \* the last call
    argBits,     \* its bits argument (SetBits)
    ret,         \* what it returned (GetBits)
    same,        \* the last call repeated the call before it, arguments included
    echo,        \* the last call was SetBits of what GetBits had just returned
    steps,       \* number of calls made
    prevOp,      \* the call before the last call
    lst,         \* a value, an index list and the calls made with them
    comb,        \* the arguments and the result of a CombineBits call
    codec,       \* a value, a byte buffer and the WriteBytes / ReadBytes calls on them
    bitc,        \* a value and the single-bit calls made on it
    unit,        \* a value and the byte / word / dword accessor calls made on it
    pair         \* a value and two range calls applied to it in both orders

\* The state of the calls on one bit range.
rangeVars == <<size, orig, rangeBegin, rangeCount, value, before, op, argBits, ret,
               same, echo, steps, prevOp>>

vars == <<rangeVars, lst, comb, codec, bitc, unit, pair>>

\* The content of a group of variables no call is made on.
Idle == [phase |-> "idle"]

\* The width of the value, in bits.
Width == size * CHAR_BIT

Init ==
    /\ size \in Sizes
    /\ orig \in Values(size)
    /\ rangeBegin \in Offsets(size)
    /\ rangeCount \in Offsets(size)
    /\ value = orig
    /\ before = orig
    /\ op = "none"
    /\ argBits = {}
    /\ ret = {}
    /\ same = FALSE
    /\ echo = FALSE
    /\ steps = 0
    /\ prevOp = "none"
    /\ lst = Idle
    /\ comb = Idle
    /\ codec = Idle
    /\ bitc = Idle
    /\ unit = Idle
    /\ pair = Idle

\* Bookkeeping of one call: what was called, on what, and how it relates to
\* the call before it.
Called(name, bits) ==
    /\ steps < MaxSteps
    /\ steps' = steps + 1
    /\ before' = value
    /\ op' = name
    /\ argBits' = bits
    /\ same' = (op = name /\ argBits = bits)
    /\ echo' = (name = "SetBits" /\ op = "GetBits" /\ bits = ret)
    /\ prevOp' = op
    /\ UNCHANGED <<size, orig, rangeBegin, rangeCount, lst, comb, codec, bitc, unit, pair>>

DoGetBits ==
    /\ Called("GetBits", {})
    /\ ret' = GetBits(size, value, rangeBegin, rangeCount)
    /\ UNCHANGED value

DoClearBits ==
    /\ Called("ClearBits", {})
    /\ value' = ClearBits(size, value, rangeBegin, rangeCount)
    /\ ret' = {}

DoSetBits ==
    \E bits \in BitsArgs \cup {ret} :
        /\ Called("SetBits", bits)
        /\ value' = SetBits(size, value, bits, rangeBegin, rangeCount)
        /\ ret' = {}

DoFillBits ==
    /\ Called("FillBits", {})
    /\ value' = FillBits(size, value, rangeBegin, rangeCount)
    /\ ret' = {}

Next ==
    \/ DoGetBits
    \/ DoClearBits
    \/ DoSetBits
    \/ DoFillBits

Spec == Init /\ [][Next]_vars

\* ------------------------------------------------------- calls on index lists
\* Bit indexes: low, inside, the top bit, and beyond the width.
Indexes(T) ==
    LET n == T * CHAR_BIT
    IN  {0, 2, n - 1, n, n + MaxOver}

\* Index lists: empty, unordered, with repeated and out-of-range indexes.
IndexLists(T) ==
    UNION {[1 .. k -> Indexes(T)] : k \in 0 .. MaxListLen}

\* lst.asked: the predicates evaluated on the current val, with their results
\* in lst.any, lst.all and lst.none; lst.call: the list overload called,
\* which took val from lst.before to lst.val.
ListInit ==
    /\ \E T \in Sizes : \E val \in Values(T) : \E idxs \in IndexLists(T) :
            lst = [phase |-> "list", size |-> T, val |-> val, idxs |-> idxs,
                   before |-> val, call |-> "none", asked |-> {},
                   any |-> FALSE, all |-> FALSE, none |-> FALSE]
    /\ size = 1 /\ orig = {} /\ rangeBegin = 0 /\ rangeCount = 0
    /\ value = {} /\ before = {} /\ op = "none" /\ argBits = {} /\ ret = {}
    /\ same = FALSE /\ echo = FALSE /\ steps = 0 /\ prevOp = "none"
    /\ comb = Idle
    /\ codec = Idle
    /\ bitc = Idle
    /\ unit = Idle
    /\ pair = Idle

DoIsAnyBitSet ==
    /\ lst.phase = "list"
    /\ "any" \notin lst.asked
    /\ lst' = [lst EXCEPT !.asked = @ \cup {"any"},
                          !.any = IsAnyBitSet(lst.size, lst.val, lst.idxs)]
    /\ UNCHANGED <<rangeVars, comb, codec, bitc, unit, pair>>

DoAreAllBitsSet ==
    /\ lst.phase = "list"
    /\ "all" \notin lst.asked
    /\ lst' = [lst EXCEPT !.asked = @ \cup {"all"},
                          !.all = AreAllBitsSet(lst.size, lst.val, lst.idxs)]
    /\ UNCHANGED <<rangeVars, comb, codec, bitc, unit, pair>>

DoIsNoneBitSet ==
    /\ lst.phase = "list"
    /\ "none" \notin lst.asked
    /\ lst' = [lst EXCEPT !.asked = @ \cup {"none"},
                          !.none = IsNoneBitSet(lst.size, lst.val, lst.idxs)]
    /\ UNCHANGED <<rangeVars, comb, codec, bitc, unit, pair>>

\* A list overload changes val: the predicates are to be evaluated anew.
ListCalled(name, val) ==
    /\ lst.phase = "list"
    /\ lst.call = "none"
    /\ lst' = [lst EXCEPT !.call = name, !.before = lst.val, !.val = val,
                          !.asked = {}, !.any = FALSE, !.all = FALSE, !.none = FALSE]
    /\ UNCHANGED <<rangeVars, comb, codec, bitc, unit, pair>>

DoFillBitsIdxs ==
    ListCalled("FillBits", FillBitsIdxs(lst.size, lst.val, lst.idxs))

DoClearBitsIdxs ==
    ListCalled("ClearBits", ClearBitsIdxs(lst.size, lst.val, lst.idxs))

ListNext ==
    \/ DoIsAnyBitSet
    \/ DoAreAllBitsSet
    \/ DoIsNoneBitSet
    \/ DoFillBitsIdxs
    \/ DoClearBitsIdxs

SpecList == ListInit /\ [][ListNext]_vars

\* ------------------------------------------------------------- CombineBits
\* sizeof of the narrow types a twice as wide unsigned type exists for.
NarrowSizes == {1, 2, 4}

CombineInit ==
    /\ \E B \in NarrowSizes : \E high \in Values(B) : \E low \in Values(B) :
            comb = [phase |-> "args", size |-> B, high |-> high, low |-> low,
                    call |-> "none", result |-> {}]
    /\ size = 1 /\ orig = {} /\ rangeBegin = 0 /\ rangeCount = 0
    /\ value = {} /\ before = {} /\ op = "none" /\ argBits = {} /\ ret = {}
    /\ same = FALSE /\ echo = FALSE /\ steps = 0 /\ prevOp = "none"
    /\ lst = Idle
    /\ codec = Idle
    /\ bitc = Idle
    /\ unit = Idle
    /\ pair = Idle

Combined(name, result) ==
    /\ comb.phase = "args"
    /\ comb' = [comb EXCEPT !.phase = "combined", !.call = name, !.result = result]
    /\ UNCHANGED <<rangeVars, lst, codec, bitc, unit, pair>>

DoCombineBits ==
    /\ comb.phase = "args"
    /\ Combined("CombineBits", CombineBits(2 * comb.size, comb.size, comb.high, comb.low))

DoCombineBytes ==
    /\ comb.phase = "args"
    /\ comb.size = 1
    /\ Combined("CombineBytes", CombineBytes(comb.high, comb.low))

DoCombineWords ==
    /\ comb.phase = "args"
    /\ comb.size = 2
    /\ Combined("CombineWords", CombineWords(comb.high, comb.low))

DoCombineDwords ==
    /\ comb.phase = "args"
    /\ comb.size = 4
    /\ Combined("CombineDwords", CombineDwords(comb.high, comb.low))

CombineNext ==
    \/ DoCombineBits
    \/ DoCombineBytes
    \/ DoCombineWords
    \/ DoCombineDwords

SpecCombine == CombineInit /\ [][CombineNext]_vars

\* CombineBits on a signed narrow type and the signed type twice as wide;
\* comb.high and comb.low are the two's-complement patterns of the arguments.
DoCombineBitsSigned ==
    /\ comb.phase = "args"
    /\ \E result \in CombineBitsSigned(2 * comb.size, comb.size, comb.high, comb.low) :
            Combined("CombineBitsSigned", result)

SpecCombineSigned == CombineInit /\ [][DoCombineBitsSigned]_vars

\* ---------------------------------------------------- WriteBytes / ReadBytes
\* The contents of one byte.
Bytes == 0 .. MaxByte

\* sizeof of the value types written and read.
CodecSizes == {1, 2, 4}

\* std::endian::little and std::endian::big.
Endians == {"little", "big"}

\* codec.native: the platform's std::endian::native; codec.endian: the endian
\* argument of the calls; codec.from: the value written; codec.buf: the buffer,
\* codec.bufBefore its content before WriteBytes; codec.out: the target of
\* ReadBytes; codec.wrote, codec.readOk: the results of the two calls;
\* codec.written: WriteBytes was called.
CodecInit ==
    /\ \E s \in CodecSizes, native \in Endians, endian \in Endians :
       \E from \in [1 .. s -> Bytes], fill \in {0, MaxByte} :
       \E n \in 0 .. (s + MaxExtra) :
       \E buf \in [1 .. n -> Bytes] :
            codec = [phase |-> "start", native |-> native, endian |-> endian,
                     from |-> from, buf |-> buf, bufBefore |-> buf,
                     out |-> [i \in 1 .. s |-> fill], written |-> FALSE,
                     wrote |-> FALSE, readOk |-> FALSE]
    /\ size = 1 /\ orig = {} /\ rangeBegin = 0 /\ rangeCount = 0
    /\ value = {} /\ before = {} /\ op = "none" /\ argBits = {} /\ ret = {}
    /\ same = FALSE /\ echo = FALSE /\ steps = 0 /\ prevOp = "none"
    /\ lst = Idle
    /\ comb = Idle
    /\ bitc = Idle
    /\ unit = Idle
    /\ pair = Idle

DoWriteBytes ==
    /\ codec.phase = "start"
    /\ LET r == WriteBytes(codec.from, codec.buf, codec.endian, codec.native)
       IN  codec' = [codec EXCEPT !.phase = "written", !.bufBefore = codec.buf,
                                  !.buf = r.to, !.wrote = r.ok, !.written = TRUE]
    /\ UNCHANGED <<rangeVars, lst, comb, bitc, unit, pair>>

DoReadBytes ==
    /\ codec.phase \in {"start", "written"}
    /\ LET r == ReadBytes(codec.buf, codec.out, codec.endian, codec.native)
       IN  codec' = [codec EXCEPT !.phase = "read", !.out = r.to, !.readOk = r.ok]
    /\ UNCHANGED <<rangeVars, lst, comb, bitc, unit, pair>>

CodecNext ==
    \/ DoWriteBytes
    \/ DoReadBytes

SpecCodec == CodecInit /\ [][CodecNext]_vars

\* ------------------------------------------------------ calls on single bits
\* bitc.val: the caller's variable, bitc.orig what it started with, bitc.before
\* its content before the last call; bitc.call, bitc.idx: the last call and its
\* index; bitc.isSet: what the last IsBitSet returned; bitc.last: for each
\* index, the last of SetBit / ClearBit that named it; bitc.calls: calls made.
BitInit ==
    /\ \E T \in Sizes : \E val \in Values(T) :
            bitc = [phase |-> "bit", size |-> T, orig |-> val, val |-> val,
                    before |-> val, call |-> "none", idx |-> 0, isSet |-> FALSE,
                    last |-> [i \in Indexes(T) |-> "none"], calls |-> 0]
    /\ size = 1 /\ orig = {} /\ rangeBegin = 0 /\ rangeCount = 0
    /\ value = {} /\ before = {} /\ op = "none" /\ argBits = {} /\ ret = {}
    /\ same = FALSE /\ echo = FALSE /\ steps = 0 /\ prevOp = "none"
    /\ lst = Idle
    /\ comb = Idle
    /\ codec = Idle
    /\ unit = Idle
    /\ pair = Idle

BitCalled(name, idx, val, isSet) ==
    /\ bitc.phase = "bit"
    /\ bitc.calls < MaxBitCalls
    /\ bitc' = [bitc EXCEPT !.val = val, !.before = bitc.val, !.call = name,
                            !.idx = idx, !.isSet = isSet,
                            !.last = IF name = "IsBitSet" THEN @
                                     ELSE [@ EXCEPT ![idx] = name],
                            !.calls = @ + 1]
    /\ UNCHANGED <<rangeVars, lst, comb, codec, unit, pair>>

DoIsBitSet ==
    \E idx \in Indexes(bitc.size) :
        BitCalled("IsBitSet", idx, bitc.val, IsBitSet(bitc.size, bitc.val, idx))

DoSetBit ==
    \E idx \in Indexes(bitc.size) :
        BitCalled("SetBit", idx, SetBit(bitc.size, bitc.val, idx), bitc.isSet)

DoClearBit ==
    \E idx \in Indexes(bitc.size) :
        BitCalled("ClearBit", idx, ClearBit(bitc.size, bitc.val, idx), bitc.isSet)

BitNext ==
    \/ DoIsBitSet
    \/ DoSetBit
    \/ DoClearBit

SpecBit == BitInit /\ [][BitNext]_vars

\* ------------------------------------------------ calls on bytes, words, dwords
\* Containers wider than a byte.
WideSizes == {2, 4, 8}

\* unit.val: the container, of sizeof unit.size; unit.begin: the begin argument
\* of GetByte / GetWord / GetDword; unit.call: the last call and unit.got what
\* it returned; unit.low, unit.high: what GetLow.. and GetHigh.. returned
\* (unit.parts: which of the two were called); unit.combined: what Combine..
\* made of them.
UnitInit ==
    /\ \E T \in WideSizes : \E val \in Values(T), begin \in Offsets(T) :
            unit = [phase |-> "unit", size |-> T, val |-> val, begin |-> begin,
                    call |-> "none", got |-> {}, low |-> {}, high |-> {},
                    parts |-> {}, combined |-> {}]
    /\ size = 1 /\ orig = {} /\ rangeBegin = 0 /\ rangeCount = 0
    /\ value = {} /\ before = {} /\ op = "none" /\ argBits = {} /\ ret = {}
    /\ same = FALSE /\ echo = FALSE /\ steps = 0 /\ prevOp = "none"
    /\ lst = Idle
    /\ comb = Idle
    /\ codec = Idle
    /\ bitc = Idle
    /\ pair = Idle

UnitGot(name, got) ==
    /\ unit' = [unit EXCEPT !.call = name, !.got = got]
    /\ UNCHANGED <<rangeVars, lst, comb, codec, bitc, pair>>

DoGetByte ==
    /\ unit.phase = "unit"
    /\ unit.size > SizeofByte
    /\ UnitGot("GetByte", GetByte(unit.size, unit.val, unit.begin))

DoGetWord ==
    /\ unit.phase = "unit"
    /\ unit.size > SizeofWord
    /\ UnitGot("GetWord", GetWord(unit.size, unit.val, unit.begin))

DoGetDword ==
    /\ unit.phase = "unit"
    /\ unit.size > SizeofDword
    /\ UnitGot("GetDword", GetDword(unit.size, unit.val, unit.begin))

\* GetLowByte on a word, GetLowWord on a double word, GetLowDword on a quad word.
DoGetLow ==
    /\ unit.phase = "unit"
    /\ unit' = [unit EXCEPT !.call = "GetLow", !.parts = @ \cup {"low"},
                            !.low = CASE unit.size = 2 -> GetLowByte(unit.val)
                                      [] unit.size = 4 -> GetLowWord(unit.val)
                                      [] unit.size = 8 -> GetLowDword(unit.val)]
    /\ UNCHANGED <<rangeVars, lst, comb, codec, bitc, pair>>

DoGetHigh ==
    /\ unit.phase = "unit"
    /\ unit' = [unit EXCEPT !.call = "GetHigh", !.parts = @ \cup {"high"},
                            !.high = CASE unit.size = 2 -> GetHighByte(unit.val)
                                       [] unit.size = 4 -> GetHighWord(unit.val)
                                       [] unit.size = 8 -> GetHighDword(unit.val)]
    /\ UNCHANGED <<rangeVars, lst, comb, codec, bitc, pair>>

\* CombineBytes / CombineWords / CombineDwords of the two halves obtained.
DoCombineHalves ==
    /\ unit.phase = "unit"
    /\ unit.parts = {"low", "high"}
    /\ unit' = [unit EXCEPT !.call = "Combine",
                    !.combined = CASE unit.size = 2 -> CombineBytes(unit.high, unit.low)
                                   [] unit.size = 4 -> CombineWords(unit.high, unit.low)
                                   [] unit.size = 8 -> CombineDwords(unit.high, unit.low)]
    /\ UNCHANGED <<rangeVars, lst, comb, codec, bitc, pair>>

UnitNext ==
    \/ DoGetByte
    \/ DoGetWord
    \/ DoGetDword
    \/ DoGetLow
    \/ DoGetHigh
    \/ DoCombineHalves

SpecUnit == UnitInit /\ [][UnitNext]_vars

\* ------------------------------------------------- two calls on two ranges
\* begin and count of ranges that lie inside the value.
PairOffsets(T) ==
    LET n == T * CHAR_BIT
    IN  {0, 1, n \div 2, n - 1, n}

\* The positions begin .. begin+count-1.
Positions(begin, count) == {i \in Low(begin + count) : i >= begin}

\* The calls on a range inside a T-byte value: ClearBits, FillBits, and SetBits
\* with bits of either kind.
PairCalls(T) ==
    LET n == T * CHAR_BIT
        ranges == {r \in PairOffsets(T) \X PairOffsets(T) : r[1] + r[2] <= n}
    IN  {[fn |-> "ClearBits", bits |-> {}, begin |-> r[1], count |-> r[2]] : r \in ranges}
        \cup {[fn |-> "FillBits", bits |-> {}, begin |-> r[1], count |-> r[2]] : r \in ranges}
        \cup {[fn |-> "SetBits", bits |-> b, begin |-> r[1], count |-> r[2]] :
                    r \in ranges, b \in {{0, 2, 3}, {1, 6, 7, 15, 31, 63}}}

\* The call c made on val.
Apply(T, c, val) ==
    CASE c.fn = "ClearBits" -> ClearBits(T, val, c.begin, c.count)
      [] c.fn = "FillBits" -> FillBits(T, val, c.begin, c.count)
      [] c.fn = "SetBits" -> SetBits(T, val, c.bits, c.begin, c.count)

\* pair.val: the value both runs start from; pair.first, pair.second: two calls
\* on ranges that do not overlap; pair.ab: the variable of the run that makes
\* the first call and then the second, pair.abMid its content between the two;
\* pair.ba, pair.baMid: the same for the run that makes the second call first.
PairInit ==
    /\ \E T \in Sizes : \E val \in Values(T) : \E c1 \in PairCalls(T), c2 \in PairCalls(T) :
            /\ Positions(c1.begin, c1.count) \cap Positions(c2.begin, c2.count) = {}
            /\ pair = [phase |-> "start", size |-> T, val |-> val, first |-> c1,
                       second |-> c2, ab |-> val, abMid |-> val, ba |-> val,
                       baMid |-> val]
    /\ size = 1 /\ orig = {} /\ rangeBegin = 0 /\ rangeCount = 0
    /\ value = {} /\ before = {} /\ op = "none" /\ argBits = {} /\ ret = {}
    /\ same = FALSE /\ echo = FALSE /\ steps = 0 /\ prevOp = "none"
    /\ lst = Idle
    /\ comb = Idle
    /\ codec = Idle
    /\ bitc = Idle
    /\ unit = Idle

\* The first call: it opens the one run and closes the other.
ApplyFirst ==
    /\ pair.phase \in {"start", "second"}
    /\ pair' = IF pair.phase = "start"
               THEN LET v == Apply(pair.size, pair.first, pair.ab)
                    IN  [pair EXCEPT !.phase = "first", !.ab = v, !.abMid = v]
               ELSE [pair EXCEPT !.phase = "both",
                                 !.ba = Apply(pair.size, pair.first, pair.ba)]
    /\ UNCHANGED <<rangeVars, lst, comb, codec, bitc, unit>>

\* The second call: it closes the one run and opens the other.
ApplySecond ==
    /\ pair.phase \in {"first", "first-second"}
    /\ pair' = IF pair.phase = "first"
               THEN [pair EXCEPT !.phase = "first-second",
                                 !.ab = Apply(pair.size, pair.second, pair.ab)]
               ELSE LET v == Apply(pair.size, pair.second, pair.ba)
                    IN  [pair EXCEPT !.phase = "second", !.ba = v, !.baMid = v]
    /\ UNCHANGED <<rangeVars, lst, comb, codec, bitc, unit>>

PairNext ==
    \/ ApplyFirst
    \/ ApplySecond

SpecPair == PairInit /\ [][PairNext]_vars

\* -------------------------------------------- range calls or single-bit calls
\* One value, with either range calls or single-bit calls made on it.
ShiftInit ==
    \/ Init
    \/ BitInit

ShiftNext ==
    \/ bitc.phase = "idle" /\ Next
    \/ bitc.phase = "bit" /\ BitNext

SpecShift == ShiftInit /\ [][ShiftNext]_vars

TypeOK ==
    /\ size \in Sizes
    /\ value \subseteq Low(Width)
    /\ ret \subseteq Low(Width)
    /\ steps \in 0 .. MaxSteps

\* ------------------------------------------------------------------- claims
\* The positions begin .. begin+count-1.
InRange(i) == rangeBegin <= i /\ i < rangeBegin + rangeCount

\* C1: GetBits(value, begin, count) with begin < W returns the count bits of
\* value starting at bit begin, right-aligned at bit 0, for every count >= 0:
\* bit i of the result is bit begin+i of value when i < count, and 0 otherwise.
C1_GetBitsRightAligned ==
    (op = "GetBits" /\ rangeBegin < Width) =>
        ret = {i \in Low(Width) : i < rangeCount /\ (i + rangeBegin) \in before}

\* C2: when begin + count <= W, SetBits leaves the low count bits of bits in
\* [begin, begin+count) and keeps every bit outside that range.
C2_SetBitsInRange ==
    (op = "SetBits" /\ rangeBegin + rangeCount <= Width) =>
        \A i \in Low(Width) :
            (i \in value) <=> IF InRange(i) THEN (i - rangeBegin) \in argBits
                                            ELSE i \in before

C2_Witness ==
    /\ op = "SetBits"
    /\ rangeBegin > 0
    /\ rangeCount > 1
    /\ rangeBegin + rangeCount < Width
    /\ \E i \in before : InRange(i) /\ i \notin value
    /\ \E i \in value : InRange(i) /\ i \notin before
    /\ \E i \in argBits : i >= rangeCount

\* C3: when begin < W and the range does not fit (count >= W or
\* begin + count > W), SetBits clamps: the bits in [begin, W) become the low
\* W - begin bits of bits and the bits below begin are kept.
C3_SetBitsClamps ==
    (op = "SetBits" /\ rangeBegin < Width
        /\ (rangeCount >= Width \/ rangeBegin + rangeCount > Width)) =>
        \A i \in Low(Width) :
            (i \in value) <=> IF i >= rangeBegin THEN (i - rangeBegin) \in argBits
                                                 ELSE i \in before

C3_Witness ==
    /\ op = "SetBits"
    /\ rangeBegin > 0
    /\ rangeBegin < Width
    /\ rangeCount >= Width
    /\ value # before
    /\ \E i \in before : i < rangeBegin
    /\ \E i \in argBits : i >= Width - rangeBegin

\* C4: ClearBits changes no bit outside [begin, begin+count), for every begin
\* and count, count >= W with 0 < begin < W included.
C4_ClearBitsFrame ==
    op = "ClearBits" =>
        \A i \in Low(Width) : ~InRange(i) => ((i \in value) <=> (i \in before))

\* C5: with begin < W, FillBits sets every bit in [begin, min(begin+count, W))
\* and keeps every other bit; the result is that of SetBits with all-ones.
C5_FillBitsRange ==
    (op = "FillBits" /\ rangeBegin < Width) =>
        /\ \A i \in Low(Width) : (i \in value) <=> (InRange(i) \/ i \in before)
        /\ value = SetBits(size, before, Low(Width), rangeBegin, rangeCount)

C5_Witness ==
    /\ op = "FillBits"
    /\ rangeBegin > 0
    /\ rangeBegin < Width
    /\ rangeCount > 1
    /\ value # before
    /\ value # Low(Width)

\* C6: GetBits with begin >= W returns 0, whatever the count.
C6_GetBitsOutOfRange ==
    (op = "GetBits" /\ rangeBegin >= Width) => ret = {}

C6_Witness ==
    /\ op = "GetBits"
    /\ rangeBegin >= Width
    /\ rangeCount >= Width
    /\ before # {}

\* C7: ClearBits, SetBits and FillBits with begin >= W leave the value
\* unchanged, so after any sequence of such calls it has its initial content.
C7_OutOfRangeNoOp ==
    rangeBegin >= Width => (value = before /\ value = orig)

C7_Witness ==
    /\ rangeBegin >= Width
    /\ steps = MaxSteps
    /\ op \in {"ClearBits", "SetBits", "FillBits"}
    /\ orig \notin {{}, Low(Width)}
    /\ rangeCount > 0

\* C8: GetBits with begin < W and count >= W returns value unchanged.
C8_GetBitsWholeValue ==
    (op = "GetBits" /\ rangeBegin < Width /\ rangeCount >= Width) => ret = before

C8_Witness ==
    /\ op = "GetBits"
    /\ rangeBegin > 0
    /\ rangeBegin < Width
    /\ rangeCount >= Width
    /\ ret # {}
    /\ ret = before

\* C9: when begin + count <= W, SetBits(value, GetBits(value, begin, count),
\* begin, count) leaves value unchanged.
C9_GetSetRoundTrip ==
    (echo /\ rangeBegin + rangeCount <= Width) => value = before

C9_Witness ==
    /\ echo
    /\ rangeBegin > 0
    /\ rangeCount > 0
    /\ rangeBegin + rangeCount <= Width
    /\ argBits # {}
    /\ \E i \in value : ~InRange(i)

\* C10: FillBits applied twice to the same range gives what it gives applied
\* once, and so does ClearBits, whether the range is inside the width or not.
C10_Idempotent ==
    (same /\ op \in {"FillBits", "ClearBits"}) => value = before

C10_Witness ==
    /\ same
    /\ op \in {"FillBits", "ClearBits"}
    /\ rangeBegin < Width
    /\ rangeCount > 0
    /\ value # orig

\* C11: after FillBits followed by ClearBits on the same range, every bit in
\* [begin, min(begin+count, W)) is 0, whatever the value held before.
C11_FillThenClear ==
    (op = "ClearBits" /\ prevOp = "FillBits") =>
        \A i \in Low(Width) : InRange(i) => i \notin value

C11_Witness ==
    /\ op = "ClearBits"
    /\ prevOp = "FillBits"
    /\ rangeBegin > 0
    /\ rangeBegin < Width
    /\ rangeCount > 0
    /\ \E i \in orig : InRange(i)
    /\ \E i \in Low(Width) : InRange(i) /\ i \notin orig
    /\ value # {}

\* The indexes of the list that lie inside the width.
ListedBits ==
    {lst.idxs[k] : k \in DOMAIN lst.idxs} \cap Low(lst.size * CHAR_BIT)

\* C19: for every value and every index list (empty, with repeated indexes or
\* with indexes >= the width), IsAnyBitSet(value, L) = ~IsNoneBitSet(value, L).
C19_AnyIsNotNone ==
    (lst.phase = "list" /\ {"any", "none"} \subseteq lst.asked) =>
        (lst.any <=> ~lst.none)

C19_Witness ==
    /\ lst.phase = "list"
    /\ {"any", "none"} \subseteq lst.asked
    /\ lst.any
    /\ Len(lst.idxs) = MaxListLen
    /\ ~IsBitSet(lst.size, lst.val, lst.idxs[1])
    /\ \E k \in DOMAIN lst.idxs : lst.idxs[k] >= lst.size * CHAR_BIT

\* C20: FillBits(value, L) sets exactly the bits {i in L : i < W} and
\* ClearBits(value, L) clears exactly those, whatever the order of the indexes
\* and however often one is repeated; the list is not a contiguous range.
C20_ListSetsListedBits ==
    /\ (lst.phase = "list" /\ lst.call = "FillBits") =>
            lst.val = lst.before \cup ListedBits
    /\ (lst.phase = "list" /\ lst.call = "ClearBits") =>
            lst.val = lst.before \ ListedBits

C20_Witness ==
    /\ lst.phase = "list"
    /\ lst.call = "FillBits"
    /\ Len(lst.idxs) = 3
    /\ lst.idxs[1] > lst.idxs[2]
    /\ lst.idxs[1] = lst.idxs[3]
    /\ lst.idxs[1] = lst.size * CHAR_BIT - 1
    /\ lst.idxs[2] = 0
    /\ lst.before = {}
    /\ lst.val = {0, lst.size * CHAR_BIT - 1}

\* C18: for unsigned high and low of width w, CombineBits, CombineBytes,
\* CombineWords and CombineDwords return high * 2^w + low: bits [0, w) of the
\* result are low and bits [w, 2w) are high.
C18_CombineHalves ==
    comb.phase = "combined" =>
        LET w == comb.size * CHAR_BIT
        IN  /\ comb.result \subseteq Low(2 * w)
            /\ \A i \in Low(2 * w) :
                    (i \in comb.result) <=> IF i < w THEN i \in comb.low
                                                     ELSE (i - w) \in comb.high

C18_Witness ==
    /\ comb.phase = "combined"
    /\ comb.call \in {"CombineBytes", "CombineWords", "CombineDwords"}
    /\ comb.high # comb.low
    /\ comb.high \notin {{}, Low(comb.size * CHAR_BIT)}
    /\ (comb.size * CHAR_BIT - 1) \in comb.low
    /\ (2 * comb.size * CHAR_BIT - 1) \notin comb.result

\* byteswap(v): the value whose bytes are those of v in reverse.
Byteswap(v) == Reverse(v)

\* The n bytes b, read as a number in byte order endian, as bytes by significance.
InOrder(b, endian) == IF endian = "little" THEN b ELSE Reverse(b)

\* C12: with a buffer of exactly sizeof(value) bytes, WriteBytes followed by
\* ReadBytes with the same order returns true both times and reads the value
\* back, for the native and for the swapped order, on either platform.
C12_FullRoundTrip ==
    (codec.phase = "read" /\ codec.written /\ Len(codec.from) > 1
        /\ Len(codec.buf) = Len(codec.from)) =>
        (codec.wrote /\ codec.readOk /\ codec.out = codec.from)

C12_Witness ==
    /\ codec.phase = "read"
    /\ codec.written
    /\ Len(codec.from) > 1
    /\ Len(codec.buf) = Len(codec.from)
    /\ codec.endian # codec.native
    /\ codec.native = "big"
    /\ codec.from # Reverse(codec.from)
    /\ codec.buf # codec.bufBefore
    /\ codec.out = codec.from

\* C13: for every size s >= 1, buffer length n >= 0 and order, WriteBytes
\* returns true exactly when n >= s, and so does ReadBytes.
C13_ResultIsBufferLargeEnough ==
    /\ (codec.phase # "idle" /\ codec.written) =>
            (codec.wrote <=> Len(codec.bufBefore) >= Len(codec.from))
    /\ codec.phase = "read" =>
            (codec.readOk <=> Len(codec.buf) >= Len(codec.out))

C13_Witness ==
    /\ codec.phase = "read"
    /\ codec.written
    /\ Len(codec.from) > 1
    /\ Len(codec.buf) = Len(codec.from) - 1
    /\ ~codec.wrote
    /\ ~codec.readOk

\* C14: for a value of s > 1 bytes and a buffer of n < s bytes, the n bytes
\* WriteBytes copies are the n least-significant bytes of the value, laid out
\* in the requested byte order, whatever the platform's native byte order.
C14_TruncatedWriteKeepsLowBytes ==
    (codec.phase = "written" /\ Len(codec.from) > 1
        /\ Len(codec.buf) < Len(codec.from)) =>
        codec.buf = InOrder(First(codec.from, Len(codec.buf)), codec.endian)

\* C15: for a target of s > 1 bytes and a source of n < s bytes, ReadBytes
\* returns false and sets the target to the value whose n least-significant
\* bytes are the source bytes read in the given order and whose s - n
\* most-significant bytes are zero.
C15_TruncatedReadPadsHighBytes ==
    (codec.phase = "read" /\ Len(codec.out) > 1
        /\ Len(codec.buf) < Len(codec.out)) =>
        /\ ~codec.readOk
        /\ codec.out = InOrder(codec.buf, codec.endian)
                            \o Zeroes(Len(codec.out) - Len(codec.buf))

\* C16: WriteBytes writes the first min(s, n) bytes of the buffer only: the
\* buffer keeps its length and every byte at an index beyond min(s, n).
C16_WriteKeepsTail ==
    (codec.phase # "idle" /\ codec.written) =>
        /\ Len(codec.buf) = Len(codec.bufBefore)
        /\ \A i \in 1 .. Len(codec.bufBefore) :
                i > Min(Len(codec.from), Len(codec.bufBefore))
                    => codec.buf[i] = codec.bufBefore[i]

C16_Witness ==
    /\ codec.phase = "written"
    /\ Len(codec.buf) > Len(codec.from)
    /\ codec.buf[Len(codec.buf)] # 0
    /\ codec.from = Zeroes(Len(codec.from))
    /\ First(codec.bufBefore, Len(codec.from)) # Zeroes(Len(codec.from))

\* C17: ReadBytes of the full native in-memory bytes of a multi-byte v yields
\* byteswap(v) with the order opposite to the platform's, and v with the
\* native order.
C17_ReadNativeBytes ==
    (codec.phase = "read" /\ ~codec.written /\ Len(codec.out) > 1
        /\ Len(codec.buf) = Len(codec.out)) =>
        LET v == BitCast(codec.buf, codec.native)
        IN  codec.out = IF codec.endian # codec.native THEN Byteswap(v) ELSE v

C17_Witness ==
    /\ codec.phase = "read"
    /\ ~codec.written
    /\ Len(codec.out) > 1
    /\ Len(codec.buf) = Len(codec.out)
    /\ codec.endian # codec.native
    /\ codec.out # BitCast(codec.buf, codec.native)

\* C21: with idx >= W (W the width of the value), IsBitSet(value, idx) returns
\* false, and SetBit(value, idx) and ClearBit(value, idx) leave value unchanged.
C21_BitOutOfRange ==
    (bitc.phase = "bit" /\ bitc.call # "none"
        /\ bitc.idx >= bitc.size * CHAR_BIT)
    => /\ bitc.val = bitc.before
       /\ (bitc.call = "IsBitSet" => bitc.isSet = FALSE)

\* An IsBitSet call whose index is the width, on a value whose bit 0 is set.
C21_Witness ==
    /\ bitc.phase = "bit"
    /\ bitc.call = "IsBitSet"
    /\ bitc.idx = bitc.size * CHAR_BIT
    /\ 0 \in bitc.val
    /\ bitc.last[bitc.idx] # "none"

C23_UnitIsGetBits ==
    unit.phase = "unit"
    => LET w == (unit.size * CHAR_BIT) \div 2
       IN  /\ unit.call = "GetByte"
                => unit.got = GetBits(unit.size, unit.val, unit.begin, 8)
           /\ unit.call = "GetWord"
                => unit.got = GetBits(unit.size, unit.val, unit.begin, 16)
           /\ unit.call = "GetDword"
                => unit.got = GetBits(unit.size, unit.val, unit.begin, 32)
           /\ "low" \in unit.parts
                => unit.low = {i \in Low(w) : i \in unit.val}
           /\ "high" \in unit.parts
                => unit.high = {i \in Low(w) : (i + w) \in unit.val}

\* GetWord at an offset inside a double word whose bits beyond the first byte of
\* the result are set; both halves of the value were taken too.
C23_Witness ==
    /\ unit.phase = "unit"
    /\ unit.call = "GetWord"
    /\ unit.size = 4
    /\ unit.begin = 1
    /\ unit.got \cap (8 .. 15) # {}
    /\ unit.parts = {"low", "high"}
    /\ unit.low # unit.high

\* C29: for every 16-bit v, CombineBytes(GetHighByte(v), GetLowByte(v)) = v;
\* for every 32-bit v, CombineWords(GetHighWord(v), GetLowWord(v)) = v; for
\* every 64-bit v, CombineDwords(GetHighDword(v), GetLowDword(v)) = v.
C29_SplitCombine ==
    (unit.phase = "unit" /\ unit.call = "Combine")
    => unit.combined = unit.val

\* A double word with different, non-zero halves, split and combined.
C29_Witness ==
    /\ unit.phase = "unit"
    /\ unit.call = "Combine"
    /\ unit.size = 4
    /\ unit.high # {}
    /\ unit.low # {}
    /\ unit.high # unit.low
    /\ unit.combined = unit.val

\* C24: in every execution of GetBits, ClearBits, SetBits, FillBits, IsBitSet,
\* SetBit and ClearBit on a value of width W, whatever begin, count and idx are,
\* every shift amount evaluated (count, begin, idx, and the W - begin that
\* SetBits passes to ClearBits) is in 0 .. W-1.
C24_ShiftsBelowWidth ==
    /\ op = "GetBits" => GetBitsShifts(size, rangeBegin, rangeCount) \subseteq Low(Width)
    /\ op = "ClearBits" => ClearBitsShifts(size, rangeBegin, rangeCount) \subseteq Low(Width)
    /\ op = "SetBits" => SetBitsShifts(size, rangeBegin, rangeCount) \subseteq Low(Width)
    /\ op = "FillBits" => FillBitsShifts(size, rangeBegin, rangeCount) \subseteq Low(Width)
    /\ (bitc.phase = "bit" /\ bitc.call # "none")
        => BitShifts(bitc.size, bitc.idx) \subseteq Low(bitc.size * CHAR_BIT)

\* SetBits with begin inside the value and count at or beyond the width: the
\* clamped count W - begin is shifted by in ClearBits.
C24_Witness ==
    /\ op = "SetBits"
    /\ rangeBegin > 0
    /\ rangeBegin < Width
    /\ rangeCount >= Width
    /\ (Width - rangeBegin) \in SetBitsShifts(size, rangeBegin, rangeCount)
    /\ value # before

\* C25: for a signed narrow type of width w and a destination of width 2w,
\* CombineBits(high, low) packs the two's-complement patterns: bits w .. 2w-1 of
\* the result are the pattern of high and bits 0 .. w-1 the pattern of low, for
\* every high and every low, negative low included.
C25_SignedCombineHalves ==
    (comb.phase = "combined" /\ comb.call = "CombineBitsSigned")
    => LET w == comb.size * CHAR_BIT
       IN  /\ \A i \in Low(w) : (i \in comb.result) <=> (i \in comb.low)
           /\ \A i \in Low(w) : ((i + w) \in comb.result) <=> (i \in comb.high)

\* C26: for every value of width W and every begin and count, ClearBits(value,
\* begin, count) leaves the same value as SetBits(value, 0, begin, count),
\* including when count >= W or begin + count > W.
C26_ClearIsSetZero ==
    op = "ClearBits" => value = SetBits(size, before, {}, rangeBegin, rangeCount)

\* C27: for every target size (1 byte included), every order and every source
\* length (0 included), the target after ReadBytes depends only on the source
\* bytes and the order, never on what the target held before the call: it is
\* what the same call leaves in a target that held zeroes.
C27_ReadIgnoresTarget ==
    codec.phase = "read"
    => codec.out = ReadBytes(codec.buf, Zeroes(Len(codec.out)), codec.endian,
                             codec.native).to

\* C28: on a little-endian platform, for every unsigned value of size s, every
\* buffer length n with 0 <= n < s and each order, WriteBytes followed by
\* ReadBytes with the same order yields value mod 2^(8n): the n low bytes of
\* the value, and zero in the s - n high bytes.
C28_TruncatedRoundTrip ==
    (codec.phase = "read" /\ codec.written /\ codec.native = "little"
        /\ Len(codec.buf) < Len(codec.from))
    => codec.out = [i \in 1 .. Len(codec.from) |->
                        IF i <= Len(codec.buf) THEN codec.from[i] ELSE 0]

\* C30: for every value of width W and any two ranges that lie inside the
\* value and do not overlap, one of SetBits / FillBits / ClearBits on the first
\* range and one on the second leave the same value whichever call runs first.
C30_DisjointCallsCommute ==
    pair.phase = "both" => pair.ab = pair.ba

\* SetBits on a range and ClearBits on a higher one, each changing the value,
\* made in both orders.
C30_Witness ==
    /\ pair.phase = "both"
    /\ pair.first.fn = "SetBits"
    /\ pair.second.fn = "ClearBits"
    /\ pair.first.count > 1
    /\ pair.second.count > 1
    /\ pair.first.begin + pair.first.count <= pair.second.begin
    /\ pair.abMid # pair.val
    /\ pair.baMid # pair.val
    /\ pair.abMid # pair.baMid
    /\ pair.ab # pair.abMid
    /\ pair.ba # pair.baMid
====
